---- MODULE Spec2Model ----
(***************************************************************************)
(* Model of the legislative monitor: the three scrapers                    *)
(* (multi_government_scraper.py) and MultiGovernmentMonitor.check_all.     *)
(*                                                                         *)
(* A Python str is modelled as the tuple of its code points, so that the   *)
(* str comparison done by list.sort and the dict lookup done by month_map   *)
(* are computed, not assumed.  An upstream page is modelled by the         *)
(* sequence, in document order, of the date patterns the scraper's regular *)
(* expression matches in it, each with the outcome of the scraper's link   *)
(* test, or by a failing fetch.                                            *)
(***************************************************************************)
EXTENDS Integers, Sequences, FiniteSets, TLC

VARIABLES page, last_check_date, pc, idx, governments, prev

vars == <<page, last_check_date, pc, idx, governments, prev>>

(***************************************************************************)
(* Bounds                                                                  *)
(***************************************************************************)
\* total number of date patterns upstream may publish over the three pages
MaxPublished == 3

(***************************************************************************)
(* Month spellings, as tuples of code points                               *)
(***************************************************************************)
January == <<74, 97, 110, 117, 97, 114, 121>>
February == <<70, 101, 98, 114, 117, 97, 114, 121>>
March == <<77, 97, 114, 99, 104>>
April == <<65, 112, 114, 105, 108>>
May == <<77, 97, 121>>
June == <<74, 117, 110, 101>>
July == <<74, 117, 108, 121>>
August == <<65, 117, 103, 117, 115, 116>>
September == <<83, 101, 112, 116, 101, 109, 98, 101, 114>>
October == <<79, 99, 116, 111, 98, 101, 114>>
November == <<78, 111, 118, 101, 109, 98, 101, 114>>
December == <<68, 101, 99, 101, 109, 98, 101, 114>>
Jan == <<74, 97, 110>>
Feb == <<70, 101, 98>>
Mar == <<77, 97, 114>>
Apr == <<65, 112, 114>>
Jun == <<74, 117, 110>>
Jul == <<74, 117, 108>>
Aug == <<65, 117, 103>>
Sep == <<83, 101, 112>>
Oct == <<79, 99, 116>>
Nov == <<78, 111, 118>>
Dec == <<68, 101, 99>>
\* a word the pattern \w+ matches that is no month spelling
Foo == <<70, 111, 111>>

(***************************************************************************)
(* The scrapers, in the order MultiGovernmentMonitor.__init__ lists them   *)
(***************************************************************************)
Alberta == "Alberta Legislature"
Commons == "House of Commons (Canada)"
Strathcona == "Strathcona County Council"

\* the list with the first two scrapers exchanged
scrapers_swapped == <<Commons, Alberta, Strathcona>>
scrapers == <<Alberta, Commons, Strathcona>>

Sources == {Alberta, Commons, Strathcona}

\* latest_items is cut to its first five entries
Cap == 5

(***************************************************************************)
(* month_map of each scraper's check_for_new, as a set of <<key, value>>   *)
(***************************************************************************)
AbbrevMonths ==
  { <<Jan, 1>>, <<Feb, 2>>, <<Mar, 3>>, <<Apr, 4>>, <<May, 5>>, <<Jun, 6>>,
    <<Jul, 7>>, <<Aug, 8>>, <<Sep, 9>>, <<Oct, 10>>, <<Nov, 11>>, <<Dec, 12>> }

FullMonths ==
  { <<January, 1>>, <<February, 2>>, <<March, 3>>, <<April, 4>>,
    <<May, 5>>, <<June, 6>>, <<July, 7>>, <<August, 8>>,
    <<September, 9>>, <<October, 10>>, <<November, 11>>, <<December, 12>> }

BothMonths ==
  FullMonths \cup
  { <<Jan, 1>>, <<Feb, 2>>, <<Mar, 3>>, <<Apr, 4>>, <<Jun, 6>>,
    <<Jul, 7>>, <<Aug, 8>>, <<Sep, 9>>, <<Oct, 10>>, <<Nov, 11>>, <<Dec, 12>> }

month_map(s) ==
  IF s = Alberta THEN AbbrevMonths
  ELSE IF s = Commons THEN FullMonths
  ELSE BothMonths

\* month_map.get(month, 1)
month_map_get(s, month) ==
  IF \E e \in month_map(s) : e[1] = month
  THEN (CHOOSE e \in month_map(s) : e[1] = month)[2]
  ELSE 1

(***************************************************************************)
(* Python comparisons                                                      *)
(***************************************************************************)
\* str < str: the first differing code point decides, a proper prefix is less
StrLess(a, b) ==
  \E i \in 1..Len(b) :
     /\ \A j \in 1..(i-1) : j <= Len(a) /\ a[j] = b[j]
     /\ \/ i > Len(a)
        \/ a[i] < b[i]

\* the sort key (x['year'], x['month'], x['day']), compared as a tuple
KeyLess(x, y) ==
  \/ x.year < y.year
  \/ x.year = y.year /\ StrLess(x.month, y.month)
  \/ x.year = y.year /\ x.month = y.month /\ x.day < y.day

\* place x, which comes after every element of s in the input, into the
\* descending list s: after the elements whose key is not less than x's
InsertDesc(x, s) ==
  LET before == { i \in 1..Len(s) : KeyLess(s[i], x) }
      k == IF before = {} THEN Len(s) + 1
           ELSE CHOOSE i \in before : \A j \in before : i <= j
  IN  SubSeq(s, 1, k-1) \o <<x>> \o SubSeq(s, k, Len(s))

RECURSIVE SortDesc(_)
\* list.sort(key=..., reverse=True): stable, descending by key
SortDesc(s) ==
  IF s = <<>> THEN <<>>
  ELSE InsertDesc(s[Len(s)], SortDesc(SubSeq(s, 1, Len(s)-1)))

\* s[:n]
Take(s, n) == SubSeq(s, 1, IF Len(s) < n THEN Len(s) ELSE n)

(***************************************************************************)
(* datetime                                                                *)
(***************************************************************************)
IsLeap(y) == (y % 4 = 0 /\ y % 100 # 0) \/ y % 400 = 0

DaysInMonth(y, m) ==
  IF m = 2 THEN (IF IsLeap(y) THEN 29 ELSE 28)
  ELSE IF m \in {4, 6, 9, 11} THEN 30
  ELSE 31

\* datetime(year, month, day) raises ValueError unless this holds
DatetimeOk(y, m, d) ==
  /\ y >= 1 /\ y <= 9999
  /\ m >= 1 /\ m <= 12
  /\ d >= 1 /\ d <= DaysInMonth(y, m)

\* the values of last_check_date the model passes to check_all
NoDate == [kind |-> "None", year |-> 0, month |-> 0, day |-> 0, second |-> 0, tz |-> FALSE]
EmptyDate == [kind |-> "empty", year |-> 0, month |-> 0, day |-> 0, second |-> 0, tz |-> FALSE]
\* "2025-10-01T12:00:00"
NaiveDate == [kind |-> "iso", year |-> 2025, month |-> 10, day |-> 1, second |-> 43200, tz |-> FALSE]
\* "2025-10-01T12:00:00+00:00"
AwareDate == [kind |-> "iso", year |-> 2025, month |-> 10, day |-> 1, second |-> 43200, tz |-> TRUE]
\* "yesterday"
MalformedDate == [kind |-> "malformed", year |-> 0, month |-> 0, day |-> 0, second |-> 0, tz |-> FALSE]

References == {NoDate, EmptyDate, NaiveDate, AwareDate, MalformedDate}

\* `not last_check_date`
Falsy(r) == r.kind \in {"None", "empty"}

\* datetime.fromisoformat(last_check_date) raises ValueError
FromIsoRaises(r) == r.kind = "malformed"

\* item_date > last_check raises TypeError: naive against aware
CompareRaises(r) == r.tz

\* datetime(y, m, d) > last_check, both naive
DatetimeGT(y, m, d, r) ==
  \/ y > r.year
  \/ y = r.year /\ m > r.month
  \/ y = r.year /\ m = r.month /\ d > r.day
  \/ y = r.year /\ m = r.month /\ d = r.day /\ 0 > r.second

(***************************************************************************)
(* Upstream pages                                                          *)
(***************************************************************************)
Pattern(mo, d, y, l) == [month |-> mo, day |-> d, year |-> y, link |-> l]

\* the date patterns upstream may publish on each page; link is the
\* outcome of the scraper's link test for that pattern
Publishable(s) ==
  IF s = Alberta THEN
    { Pattern(Sep, 30, 2025, TRUE), Pattern(Oct, 15, 2025, TRUE),
      Pattern(December, 10, 2025, TRUE), Pattern(Oct, 20, 2025, FALSE) }
  ELSE IF s = Commons THEN
    { Pattern(October, 20, 2025, TRUE), Pattern(Oct, 20, 2025, TRUE),
      Pattern(February, 30, 2026, TRUE) }
  ELSE
    { Pattern(Foo, 5, 2026, TRUE), Pattern(October, 1, 2025, TRUE),
      Pattern(Nov, 31, 2025, TRUE) }

\* the dict appended for the pattern at position i of the page; full_text
\* and the url are what tells two entries of one page apart
Entry(p, i) == [full_text |-> i, month |-> p.month, day |-> p.day, year |-> p.year]

RECURSIVE Collect(_, _)
\* the loop over the matches: those that pass the link test are appended
Collect(pats, i) ==
  IF i > Len(pats) THEN <<>>
  ELSE (IF pats[i].link THEN <<Entry(pats[i], i)>> ELSE <<>>) \o Collect(pats, i + 1)

\* info['latest_items'] of get_latest_info, for a page that was fetched
latest_items(s, pats) ==
  IF s = Commons
  THEN (IF pats = <<>> THEN <<>> ELSE <<Entry(pats[1], 1)>>)
  ELSE Take(SortDesc(Collect(pats, 1)), Cap)

\* get_latest_info: the except branch returns a dict with 'error'
get_latest_info(s, pg) ==
  IF pg.ok
  THEN [error |-> FALSE, latest_items |-> latest_items(s, pg.patterns)]
  ELSE [error |-> TRUE, latest_items |-> <<>>]

RECURSIVE NewItems(_, _, _)
\* the for loop of check_for_new: an item whose datetime cannot be built or
\* compared is skipped by the bare except
NewItems(s, items, r) ==
  IF items = <<>> THEN <<>>
  ELSE LET item == Head(items)
           m == month_map_get(s, item.month)
           isNew == /\ DatetimeOk(item.year, m, item.day)
                    /\ ~CompareRaises(r)
                    /\ DatetimeGT(item.year, m, item.day, r)
       IN  (IF isNew THEN <<item>> ELSE <<>>) \o NewItems(s, Tail(items), r)

\* check_for_new: the returned pair, or the exception it lets through
check_for_new(s, pg, r) ==
  LET info == get_latest_info(s, pg)
  IN  IF info.error
      THEN [raised |-> FALSE, has_new |-> FALSE, new_items |-> <<>>]
      ELSE IF Falsy(r)
      THEN [raised |-> FALSE, has_new |-> TRUE,
            new_items |-> IF info.latest_items # <<>>
                          THEN <<info.latest_items[1]>> ELSE <<>>]
      ELSE IF FromIsoRaises(r)
      THEN [raised |-> TRUE, has_new |-> FALSE, new_items |-> <<>>]
      ELSE LET new == NewItems(s, info.latest_items, r)
           IN  [raised |-> FALSE, has_new |-> Len(new) > 0, new_items |-> new]

(***************************************************************************)
(* check_all and its environment                                           *)
(***************************************************************************)
\* the list of the call before, kept instead of a new one
StaleResults == governments
\* results['governments'] at the start of a call
FreshResults == <<>>

NoPrev == [pc |-> "none", governments |-> <<>>]

Published == Len(page[Alberta].patterns) + Len(page[Commons].patterns)
             + Len(page[Strathcona].patterns)

Init ==
  /\ page = [s \in Sources |-> [ok |-> TRUE, patterns |-> <<>>]]
  /\ last_check_date = NoDate
  /\ pc = "idle"
  /\ idx = 1
  /\ governments = <<>>
  /\ prev = NoPrev

\* upstream adds a date pattern to a page; no call is in progress
Publish(s, p) ==
  /\ pc # "running"
  /\ Published < MaxPublished
  /\ page' = [page EXCEPT ![s].patterns = Append(@, p)]
  /\ pc' = "idle"
  /\ idx' = 1
  /\ governments' = <<>>
  /\ prev' = NoPrev
  /\ UNCHANGED last_check_date

\* upstream starts or stops answering the fetch of a page
SetFetch(s) ==
  /\ pc # "running"
  /\ page' = [page EXCEPT ![s].ok = ~@]
  /\ pc' = "idle"
  /\ idx' = 1
  /\ governments' = <<>>
  /\ prev' = NoPrev
  /\ UNCHANGED last_check_date

\* a caller enters check_all(r); prev keeps the outcome of the call before,
\* when that call had the same argument and saw the same pages
CheckAll(r) ==
  /\ pc # "running"
  /\ prev' = IF pc \in {"returned", "raised"} /\ r = last_check_date
             THEN [pc |-> pc, governments |-> IF pc = "returned" THEN governments ELSE <<>>]
             ELSE NoPrev
  /\ last_check_date' = r
  /\ governments' = FreshResults
  /\ idx' = 1
  /\ pc' = "running"
  /\ UNCHANGED page

\* one iteration of the for loop: check_for_new returns, the entry is appended
Scrape ==
  /\ pc = "running"
  /\ idx <= Len(scrapers)
  /\ LET s == scrapers[idx]
         res == check_for_new(s, page[s], last_check_date)
     IN  /\ ~res.raised
         /\ governments' = Append(governments,
                [name |-> s, has_new_content |-> res.has_new, new_items |-> res.new_items])
  /\ idx' = idx + 1
  /\ UNCHANGED <<page, last_check_date, pc, prev>>

\* one iteration of the for loop: check_for_new raises, check_all is left
ScrapeRaises ==
  /\ pc = "running"
  /\ idx <= Len(scrapers)
  /\ check_for_new(scrapers[idx], page[scrapers[idx]], last_check_date).raised
  /\ pc' = "raised"
  /\ UNCHANGED <<page, last_check_date, idx, governments, prev>>

\* return results
Return ==
  /\ pc = "running"
  /\ idx > Len(scrapers)
  /\ pc' = "returned"
  /\ UNCHANGED <<page, last_check_date, idx, governments, prev>>

Next ==
  \/ \E s \in Sources : \E p \in Publishable(s) : Publish(s, p)
  \/ \E s \in Sources : SetFetch(s)
  \/ \E r \in References : CheckAll(r)
  \/ Scrape
  \/ ScrapeRaises
  \/ Return

Spec == Init /\ [][Next]_vars

TypeOK ==
  /\ pc \in {"idle", "running", "returned", "raised"}
  /\ idx \in 1..(Len(scrapers) + 1)
  /\ last_check_date \in References

(***************************************************************************)
(* Properties                                                              *)
(***************************************************************************)
\* the entry of the i-th source in a returned result
Fetched(i) == page[scrapers[i]].ok
Extracted(i) == latest_items(scrapers[i], page[scrapers[i]].patterns)
Positions == 1..Len(scrapers)

\* the entry check_all builds for source s from its page alone
EntryOf(s) ==
  LET res == check_for_new(s, page[s], last_check_date)
  IN  [name |-> s, has_new_content |-> res.has_new, new_items |-> res.new_items]

\* C1: in a returned result, the entry of a source whose fetch failed has
\* error set, has_new false and no new items, and the entries of the other
\* two sources are what their own pages alone determine.
C1_FailedSourceReportsError ==
  pc = "returned" =>
    \A i \in Positions :
      ~Fetched(i) =>
        /\ "error" \in DOMAIN governments[i]
        /\ governments[i].has_new_content = FALSE
        /\ governments[i].new_items = <<>>
        /\ \A j \in Positions \ {i} : governments[j] = EntryOf(scrapers[j])

\* C2: without a reference, a fetched source reports has_new true and its
\* first extracted item when it extracted something, and has_new false with
\* no new items when it extracted nothing.
C2_NoReferenceLatestOnly ==
  pc = "returned" /\ Falsy(last_check_date) =>
    \A i \in Positions :
      Fetched(i) =>
        IF Extracted(i) # <<>>
        THEN /\ governments[i].has_new_content = TRUE
             /\ governments[i].new_items = <<Extracted(i)[1]>>
        ELSE /\ governments[i].has_new_content = FALSE
             /\ governments[i].new_items = <<>>

\* the normalized (year, month, day) of an item is after the reference's date
DateAfter(s, item, r) ==
  LET m == month_map_get(s, item.month)
  IN  \/ item.year > r.year
      \/ item.year = r.year /\ m > r.month
      \/ item.year = r.year /\ m = r.month /\ item.day > r.day

\* C3: with a reference R, new_items is exactly the extracted items whose
\* normalized date is strictly after R's date, in extraction order, and
\* has_new tells whether there is one.
C3_ReferenceExactSubset ==
  pc = "returned" /\ last_check_date.kind = "iso" =>
    \A i \in Positions :
      Fetched(i) =>
        LET After(item) == DateAfter(scrapers[i], item, last_check_date)
            expected == SelectSeq(Extracted(i), After)
        IN  /\ governments[i].new_items = expected
            /\ governments[i].has_new_content = (expected # <<>>)

\* a is an older calendar date than b, by (year, month number, day)
Older(s, a, b) ==
  LET ma == month_map_get(s, a.month)
      mb == month_map_get(s, b.month)
  IN  \/ a.year < b.year
      \/ a.year = b.year /\ ma < mb
      \/ a.year = b.year /\ ma = mb /\ a.day < b.day

\* C4: the extracted list of every fetched page has at most five items, no
\* item of it is older than the item after it, and no item the cap left out
\* is newer than an item kept.
C4_ExtractedNewestFirst ==
  pc = "returned" =>
    \A i \in Positions :
      Fetched(i) =>
        LET s == scrapers[i]
            items == Extracted(i)
            all == Collect(page[s].patterns, 1)
        IN  /\ Len(items) <= 5
            /\ \A k \in 1..(Len(items) - 1) : ~Older(s, items[k], items[k+1])
            /\ s # Commons =>
                 \A a \in 1..Len(all) :
                   (\A k \in 1..Len(items) : items[k] # all[a]) =>
                     \A k \in 1..Len(items) : ~Older(s, items[k], all[a])

\* C5: check_all never lets an exception through to its caller.
C5_NeverRaises == pc # "raised"

\* C6: every item that leaves extraction or is reported new has a valid
\* calendar date.
C6_OnlyValidDates ==
  pc = "returned" =>
    \A i \in Positions :
      LET s == scrapers[i]
          Valid(item) == DatetimeOk(item.year, month_map_get(s, item.month), item.day)
      IN  /\ Fetched(i) =>
               \A k \in 1..Len(Extracted(i)) : Valid(Extracted(i)[k])
          /\ \A k \in 1..Len(governments[i].new_items) :
               Valid(governments[i].new_items[k])

\* C7: for every source, an extracted item whose month is the full name or
\* the three-letter abbreviation of a month is normalized to that month's
\* number.
C7_BothSpellingsRecognized ==
  pc = "returned" =>
    \A i \in Positions :
      Fetched(i) =>
        \A k \in 1..Len(Extracted(i)) :
          \A e \in FullMonths \cup AbbrevMonths :
            e[1] = Extracted(i)[k].month =>
              month_map_get(scrapers[i], Extracted(i)[k].month) = e[2]

\* C8: a returned result has exactly three entries, Provincial, Federal,
\* Municipal in that order, and while check_all runs the entries built so
\* far are those of the sources before the one being processed, in order.
C8_ThreeEntriesInOrder ==
  LET order == <<"Alberta Legislature", "House of Commons (Canada)",
                 "Strathcona County Council">>
  IN  /\ pc = "returned" =>
           /\ Len(governments) = 3
           /\ \A i \in 1..3 : governments[i].name = order[i]
      /\ pc = "running" =>
           /\ Len(governments) = idx - 1
           /\ Len(governments) <= 3
           /\ \A i \in 1..Len(governments) : governments[i].name = order[i]

\* a result was returned with a failed source, a source that found nothing
\* and a source that found something
C8_Witness ==
  /\ pc = "returned"
  /\ \E i \in Positions : ~Fetched(i)
  /\ \E i \in Positions : Fetched(i) /\ governments[i].new_items = <<>>
  /\ \E i \in Positions : governments[i].new_items # <<>>

\* C9: a call that follows a call with the same reference and the same
\* pages ends the same way, and when it returns, returns the same entries.
C9_SecondCallSame ==
  pc \in {"returned", "raised"} /\ prev.pc # "none" =>
    /\ prev.pc = pc
    /\ pc = "returned" => prev.governments = governments

\* a second call with a reference returned, with something new in it
C9_Witness ==
  /\ pc = "returned"
  /\ prev.pc = "returned"
  /\ last_check_date = NaiveDate
  /\ \E i \in Positions : governments[i].new_items # <<>>

\* the item is one of seq
InSeq(item, seq) == \E k \in 1..Len(seq) : seq[k] = item

\* C10: with a reference, an extracted item whose month name the source's
\* table does not hold is reported new exactly when (year, 1, day) is after
\* the reference's date.
C10_UnknownMonthIsJanuary ==
  pc = "returned" /\ last_check_date.kind = "iso" =>
    \A i \in Positions :
      Fetched(i) =>
        \A k \in 1..Len(Extracted(i)) :
          LET item == Extracted(i)[k]
              r == last_check_date
          IN  (\A e \in month_map(scrapers[i]) : e[1] # item.month) =>
                (InSeq(item, governments[i].new_items)
                   <=> \/ item.year > r.year
                       \/ item.year = r.year /\ 1 > r.month
                       \/ item.year = r.year /\ 1 = r.month /\ item.day > r.day)

\* check_updates: the status of the /check response built from a result
check_updates_status(govs) ==
  IF \E i \in 1..Len(govs) : govs[i].has_new_content
  THEN "new_content" ELSE "no_new_content"

\* C11: in every returned result each source's has_new_content is true
\* exactly when its new_items is non-empty, so that /check, which calls
\* check_all(None), answers 'new_content' only when a source lists an item.
C11_HasNewIffItems ==
  pc = "returned" =>
    /\ \A i \in 1..Len(governments) :
         governments[i].has_new_content <=> (governments[i].new_items # <<>>)
    /\ (last_check_date = NoDate
          /\ check_updates_status(governments) = "new_content") =>
         \E i \in 1..Len(governments) : governments[i].new_items # <<>>
====
